---- MODULE Spec2Model ----
(***************************************************************************)
(* Model of ymca_card_maker.py: the Code 39 data encoder (mod43_check_digit,*)
(* build_data, safe_filename), the barcode artifact cache kept in gen_dir   *)
(* and the card reports that populate and read it.                          *)
(*                                                                          *)
(* A Python str is modelled as a sequence of one-character strings, so      *)
(* "+A" is <<"+", "A">>.                                                    *)
(***************************************************************************)
EXTENDS Integers, Sequences, FiniteSets, TLC

\* ------------------------------------------------------------------------
\* Bounds of the model
\* ------------------------------------------------------------------------
MaxLen == 3        \* longest raw string drawn over SampleChars
MaxAlphaLen == 2   \* longest string drawn over the whole Code 39 alphabet
MaxRuns == 2       \* report invocations made by one invoker
MaxClock == 3      \* last clock reading, in ticks
TicksPerSecond == 2 \* clock readings that fall into one second

\* ------------------------------------------------------------------------
\* Characters
\* ------------------------------------------------------------------------
\* C39_CHARS = "0123456789ABCDEFGHIJKLMNOPQRSTUVWXYZ-. $/+%"
C39_CHARS ==
  << "0","1","2","3","4","5","6","7","8","9",
     "A","B","C","D","E","F","G","H","I","J","K","L","M",
     "N","O","P","Q","R","S","T","U","V","W","X","Y","Z",
     "-","."," ","$","/","+","%" >>

Range(f) == { f[i] : i \in DOMAIN f }

UPPER_LETTERS ==
  << "A","B","C","D","E","F","G","H","I","J","K","L","M",
     "N","O","P","Q","R","S","T","U","V","W","X","Y","Z" >>

LOWER_LETTERS ==
  << "a","b","c","d","e","f","g","h","i","j","k","l","m",
     "n","o","p","q","r","s","t","u","v","w","x","y","z" >>

DIGITS == << "0","1","2","3","4","5","6","7","8","9" >>

\* characters str.strip() removes (the ones the model's inputs can contain)
WHITESPACE == { " ", "\t" }

\* str.upper() on one character
UpperChar(ch) ==
  IF \E i \in 1..26 : LOWER_LETTERS[i] = ch
  THEN UPPER_LETTERS[CHOOSE i \in 1..26 : LOWER_LETTERS[i] = ch]
  ELSE ch

\* str.upper()
Upper(s) == [ i \in 1..Len(s) |-> UpperChar(s[i]) ]

\* str.replace(ch, "")
RECURSIVE RemoveChar(_, _)
RemoveChar(s, ch) ==
  IF s = << >> THEN << >>
  ELSE IF Head(s) = ch THEN RemoveChar(Tail(s), ch)
       ELSE << Head(s) >> \o RemoveChar(Tail(s), ch)

\* str.strip()
RECURSIVE LStrip(_)
LStrip(s) ==
  IF s # << >> /\ Head(s) \in WHITESPACE THEN LStrip(Tail(s)) ELSE s

RECURSIVE RStrip(_)
RStrip(s) ==
  IF s # << >> /\ s[Len(s)] \in WHITESPACE
  THEN RStrip(SubSeq(s, 1, Len(s) - 1)) ELSE s

Strip(s) == RStrip(LStrip(s))

\* ------------------------------------------------------------------------
\* DataEncoder
\* ------------------------------------------------------------------------
\* the exception str.index raises for a character that is not in C39_CHARS
ValueError == "ValueError"

\* C39_CHARS.index(ch), zero-based; only used where ch is in the alphabet
C39Index(ch) == (CHOOSE i \in 1..Len(C39_CHARS) : C39_CHARS[i] = ch) - 1

\* str(e) of the ValueError C39_CHARS.index(ch) raises for a ch that is not
\* in the alphabet: the same text for every ch
IndexErrorText(ch) ==
  << "s", "u", "b", "s", "t", "r", "i", "n", "g", " ", "n", "o", "t", " ",
     "f", "o", "u", "n", "d" >>

\* the loop of mod43_check_digit: s += C39_CHARS.index(ch)
RECURSIVE Mod43Sum(_)
Mod43Sum(clean) ==
  IF clean = << >> THEN 0
  ELSE C39Index(Head(clean)) + Mod43Sum(Tail(clean))

\* mod43_check_digit reducing the sum modulo 42 instead of 43
mod43_check_digit_Mod42(data) ==
  LET clean == RemoveChar(Upper(data), "*")
  IN  IF \E i \in 1..Len(clean) : clean[i] \notin Range(C39_CHARS)
      THEN ValueError
      ELSE C39_CHARS[(Mod43Sum(clean) % 42) + 1]

\* mod43_check_digit leaving unknown characters out of the sum instead of
\* raising
mod43_check_digit_SkipUnknown(data) ==
  LET clean == RemoveChar(Upper(data), "*")
      known == SelectSeq(clean, LAMBDA ch : ch \in Range(C39_CHARS))
  IN  C39_CHARS[(Mod43Sum(known) % 43) + 1]

mod43_check_digit(data) ==
  LET clean == RemoveChar(Upper(data), "*")
  IN  IF \E i \in 1..Len(clean) : clean[i] \notin Range(C39_CHARS)
      THEN ValueError
      ELSE C39_CHARS[(Mod43Sum(clean) % 43) + 1]

\* build_data taking the check digit before the '+' is put in front
build_data_ChecksumBeforePlus(raw, checksum, plus) ==
  LET data0  == Upper(Strip(raw))
      data1  == IF plus THEN << "+" >> \o data0 ELSE data0
      cd     == mod43_check_digit(data0)
  IN  IF ~checksum
      THEN [ok |-> TRUE, data |-> data1, bottom |-> data1]
      ELSE IF cd = ValueError
           THEN [ok |-> FALSE, data |-> << >>, bottom |-> << >>]
           ELSE [ok |-> TRUE, data |-> data1 \o << cd >>,
                 bottom |-> data1 \o << cd >>]

\* build_data appending the check digit to the encoded data only
build_data_ChecksumOnlyEncoded(raw, checksum, plus) ==
  LET data0  == Upper(Strip(raw))
      data1  == IF plus THEN << "+" >> \o data0 ELSE data0
      cd     == mod43_check_digit(data1)
  IN  IF ~checksum
      THEN [ok |-> TRUE, data |-> data1, bottom |-> data1]
      ELSE IF cd = ValueError
           THEN [ok |-> FALSE, data |-> << >>, bottom |-> << >>]
           ELSE [ok |-> TRUE, data |-> data1 \o << cd >>, bottom |-> data1]

\* build_data without raw.strip()
build_data_NoStrip(raw, checksum, plus) ==
  LET data0  == Upper(raw)
      data1  == IF plus THEN << "+" >> \o data0 ELSE data0
      cd     == mod43_check_digit(data1)
  IN  IF ~checksum
      THEN [ok |-> TRUE, data |-> data1, bottom |-> data1]
      ELSE IF cd = ValueError
           THEN [ok |-> FALSE, data |-> << >>, bottom |-> << >>]
           ELSE [ok |-> TRUE, data |-> data1 \o << cd >>,
                 bottom |-> data1 \o << cd >>]

\* build_data returns (data, bottom) or raises the ValueError of the checksum
build_data(raw, checksum, plus) ==
  LET data0  == Upper(Strip(raw))
      data1  == IF plus THEN << "+" >> \o data0 ELSE data0
      bottom == data1
      cd     == mod43_check_digit(data1)
  IN  IF ~checksum
      THEN [ok |-> TRUE, data |-> data1, bottom |-> bottom]
      ELSE IF cd = ValueError
           THEN [ok |-> FALSE, data |-> << >>, bottom |-> << >>]
           ELSE [ok |-> TRUE, data |-> data1 \o << cd >>,
                 bottom |-> bottom \o << cd >>]

\* the character class with a blank in it: [A-Za-z0-9._ -]
SafeChars_WithSpace ==
  Range(UPPER_LETTERS) \cup Range(LOWER_LETTERS) \cup Range(DIGITS)
    \cup { ".", "_", "-", " " }

\* characters the regular expression of safe_filename keeps: [A-Za-z0-9._-]
SafeChars ==
  Range(UPPER_LETTERS) \cup Range(LOWER_LETTERS) \cup Range(DIGITS)
    \cup { ".", "_", "-" }

SAFE_MAX == 120

\* re.sub(r"[^A-Za-z0-9._-]+", "_", s): every maximal run of other
\* characters becomes one underscore; inRun says that the character in
\* front of s belongs to such a run. The string is scanned by halves.
RECURSIVE ReSubRuns(_, _)
ReSubRuns(s, inRun) ==
  IF Len(s) = 0 THEN << >>
  ELSE IF Len(s) = 1
       THEN IF s[1] \in SafeChars THEN s
            ELSE IF inRun THEN << >> ELSE << "_" >>
       ELSE LET m == Len(s) \div 2
            IN  ReSubRuns(SubSeq(s, 1, m), inRun)
                  \o ReSubRuns(SubSeq(s, m + 1, Len(s)), s[m] \notin SafeChars)

\* safe_filename with the regular expression lacking its '+': every
\* character outside the class becomes its own underscore
safe_filename_PerChar(s) ==
  LET t  == Strip(s)
      s2 == [ i \in 1..Len(t) |-> IF t[i] \in SafeChars THEN t[i] ELSE "_" ]
  IN  IF Len(s2) > SAFE_MAX THEN SubSeq(s2, 1, SAFE_MAX) ELSE s2

safe_filename(s) ==
  LET s2 == ReSubRuns(Strip(s), FALSE)
  IN  IF Len(s2) > SAFE_MAX THEN SubSeq(s2, 1, SAFE_MAX) ELSE s2

\* ------------------------------------------------------------------------
\* State
\* ------------------------------------------------------------------------
VARIABLES
  call,      \* DataEncoder: the function applied and its arguments
  ret,       \* DataEncoder: what the call returned, Pending before it ran
  gen,       \* paths.gen_dir: svg file name -> content of the file
  outDir,    \* paths.out_dir: output document -> what was drawn into it
  pc,        \* per invoker: position inside the running report function
  req,       \* per invoker: arguments of the running (or last) report
  k,         \* per invoker: which of the report's encodings is looked up
  slot,      \* per invoker: next card slot to draw
  comp,      \* per invoker: cards composited onto the open canvas
  status,    \* per invoker: how the last report ended
  runs,      \* per invoker: report invocations started
  budget,    \* per invoker: report invocations it may start
  invoked,   \* per invoker: renderer invocations made by the running report
  served,    \* history: encoded data -> svg path of a report that returned
  zintFailed,\* history: some renderer invocation exited nonzero
  surface,   \* per invoker: the canvas.Canvas of the running report
  printed,   \* per invoker: output paths printed as "Created: ..."
  io,        \* per invoker: what the running invocation did to the file
             \* system and which subprocess it started
  opt,       \* per invoker: timestamp, holes and paths.ocrb_ttf of the call
  now,       \* the wall clock, in ticks
  out,       \* per invoker: the path choose_output_path returned
  registered,\* per invoker (process): the pdfmetrics font registry
  saves      \* history: the documents c.save() wrote, in order

vars == << call, ret, gen, outDir, pc, req, k, slot, comp, status, runs,
           budget, invoked, served, zintFailed, surface, printed, io,
           opt, now, out, registered, saves >>

encVars  == << call, ret >>
procVars == << gen, outDir, pc, req, k, slot, comp, status, runs, budget,
               invoked, served, zintFailed, surface, printed, io,
               opt, now, out, registered, saves >>

Invokers == { 1, 2 }

\* ------------------------------------------------------------------------
\* Layout constants and report kinds
\* ------------------------------------------------------------------------
COLS == 2
ROWS == 3

\* lengths in hundredths of a millimetre (reportlab's mm is a constant
\* factor on all of them)
CARD_W == 8560
CARD_H == 5398

\* PAGE_SIZE_LETTER = letter: 8.5 in x 11 in
PAGE_W == 21590
PAGE_H == 27940

\* letter_layout_positions: margin_x, margin_top, gap_x, gap_y
MARGIN_X == 1200
MARGIN_TOP == 1200
GAP_X == 1200
GAP_Y == 1800

letter_layout_positions ==
  [ start_x |-> MARGIN_X, start_y_top |-> PAGE_H - MARGIN_TOP - CARD_H,
    gap_x |-> GAP_X, gap_y |-> GAP_Y ]

\* barcode placement in the card
BARCODE_BOTTOM_FROM_BOTTOM == 550
BARCODE_HEIGHT == 1300
BARCODE_WIDTH == 5920

BarcodeReports == { "barcode_svg", "barcode_png" }

CardReports ==
  { "ymca_letter_1up", "ymca_cr80_1up", "ymca_letter_6up",
    "ymca_letter_6up_mixed" }

\* raw strings the invokers pass to the reports
RawInputs == { << "$" >>, << "#" >>, << "A", "b" >> }

Requests ==
  [ report : CardReports, raw : RawInputs,
    checksum : BOOLEAN, plus : BOOLEAN ]

NoRequest ==
  [ report |-> "none", raw |-> << >>, checksum |-> FALSE, plus |-> FALSE ]

\* font files paths.ocrb_ttf may name
FontPaths == { "OCR-B.ttf", "other/OCR-B.ttf" }

\* timestamp and holes arguments of a report and the font of its paths
Options ==
  [ timestamp : BOOLEAN, holes : BOOLEAN, ocrb_ttf : FontPaths ]

\* the reports called without --timestamp and --no-holes
DefaultOptions ==
  [ timestamp |-> FALSE, holes |-> TRUE, ocrb_ttf |-> "OCR-B.ttf" ]

\* the calls of the runs that vary the options
OptRequests ==
  [ report : { "ymca_cr80_1up" }, raw : { << "A", "b" >> },
    checksum : BOOLEAN, plus : { FALSE } ]

\* pdfmetrics before any font is registered under "OCRB"
NoFont == [ font |-> "none", calls |-> 0 ]

\* register_ocrb(font_path) on the registry reg
register_ocrb(reg, font_path) ==
  IF reg.font = "none"
  THEN [ font |-> font_path, calls |-> reg.calls + 1 ]
  ELSE reg

IsMixed(r) == r.report = "ymca_letter_6up_mixed"

\* the build_data calls a report makes, in the order it makes them
Builds(r) ==
  IF IsMixed(r)
  THEN << build_data(r.raw, FALSE, r.plus), build_data(r.raw, TRUE, r.plus) >>
  ELSE << build_data(r.raw, r.checksum, r.plus) >>

BuildsOk(r) == \A i \in DOMAIN Builds(r) : Builds(r)[i].ok

\* svg = paths.gen_dir / f"{safe_filename(data)}.svg"
SvgPath(data) == safe_filename(data) \o << ".svg" >>

\* number of cards the report draws
NumSlots(r) ==
  IF r.report \in { "ymca_letter_6up", "ymca_letter_6up_mixed" }
  THEN ROWS * COLS ELSE 1

\* which build of the report slot i (zero-based) is drawn from
SlotBuild(r, i) ==
  IF IsMixed(r) THEN (IF i % COLS = 0 THEN 1 ELSE 2) ELSE 1

\* the ts of a file name without a timestamp
NoStamp == -1

\* out = choose_output_path(paths.out_dir, f"{safe_filename(raw)}__<report>_<tag>", "pdf", ...)
OutputPath(r) ==
  [ stem |-> safe_filename(r.raw), report |-> r.report,
    tag |-> IF IsMixed(r) THEN "" ELSE IF r.checksum THEN "chk" ELSE "plain",
    ext |-> IF r.report = "barcode_svg" THEN "svg"
            ELSE IF r.report = "barcode_png" THEN "png" ELSE "pdf",
    ts |-> NoStamp ]

\* ts = datetime.now().strftime("%Y%m%d_%H%M%S"): the clock reading cut
\* down to whole seconds
strftime(t) == t \div TicksPerSecond

\* choose_output_path(out_dir, stem, ext, timestamp) called at clock
\* reading t
choose_output_path(r, timestamp, t) ==
  [ OutputPath(r) EXCEPT !.ts = IF timestamp THEN strftime(t) ELSE NoStamp ]

\* the canvas calls of draw_ymca_card with the holes drawn on every card
draw_ymca_card_HolesAlways(holes_enabled) ==
  << "roundRect", "url", "title", "circle", "circle", "svg", "bottom" >>

\* the canvas calls of draw_ymca_card, in the order it makes them:
\* draw_rounded_card, draw_header, draw_holes, draw_barcode_svg,
\* draw_bottom_text
draw_ymca_card(holes_enabled) ==
  << "roundRect" >>
    \o << "url", "title" >>
    \o (IF holes_enabled THEN << "circle", "circle" >> ELSE << >>)
    \o << "svg" >>
    \o << "bottom" >>

\* draw_barcode_svg: where the scaled drawing is put for a card at (x, y)
draw_barcode_svg(x, y) ==
  [ bx |-> x + (CARD_W - BARCODE_WIDTH) \div 2,
    by |-> y + BARCODE_BOTTOM_FROM_BOTTOM,
    w |-> BARCODE_WIDTH, h |-> BARCODE_HEIGHT ]

\* the loop of the 6-up reports with the row and column swapped
SlotOrigin_RowColSwapped(r, i) ==
  LET L == letter_layout_positions
  IN  IF r.report = "ymca_cr80_1up" THEN << 0, 0 >>
      ELSE IF r.report = "ymca_letter_1up"
           THEN << L.start_x, L.start_y_top >>
           ELSE LET row == i % COLS
                    col == i \div COLS
                IN  << L.start_x + col * (CARD_W + L.gap_x),
                       L.start_y_top - row * (CARD_H + L.gap_y) >>

\* the loop of the 6-up reports stepping by the gaps alone
SlotOrigin_StrideWithoutCard(r, i) ==
  LET L == letter_layout_positions
  IN  IF r.report = "ymca_cr80_1up" THEN << 0, 0 >>
      ELSE IF r.report = "ymca_letter_1up"
           THEN << L.start_x, L.start_y_top >>
           ELSE LET row == i \div COLS
                    col == i % COLS
                IN  << L.start_x + col * L.gap_x,
                       L.start_y_top - row * L.gap_y >>

\* the (x, y) draw_ymca_card gets for slot i (zero-based)
SlotOrigin(r, i) ==
  LET L == letter_layout_positions
  IN  IF r.report = "ymca_cr80_1up" THEN << 0, 0 >>
      ELSE IF r.report = "ymca_letter_1up"
           THEN << L.start_x, L.start_y_top >>
           ELSE LET row == i \div COLS
                    col == i % COLS
                IN  << L.start_x + col * (CARD_W + L.gap_x),
                       L.start_y_top - row * (CARD_H + L.gap_y) >>

\* content of a file in gen_dir: the data the renderer was run on and
\* whether the renderer finished writing it
Artifact(data, complete) == [ of |-> data, complete |-> complete ]

Exists(path) == path \in DOMAIN gen

\* the encoding invoker p is looking up or rendering
CurData(p) == Builds(req[p])[k[p]].data

\* ------------------------------------------------------------------------
\* DataEncoder calls
\* ------------------------------------------------------------------------
SampleChars == { "A", "b", " ", "$", "*", "#", "+" }

Strs(S, n) == UNION { [ 1..m -> S ] : m \in 0..n }

GoldenVector == << "Y","X","X","X","X","0","1","2","3","4","5","6" >>

SampleStrings == Strs(SampleChars, MaxLen) \cup { GoldenVector, << "a", "b", "c" >> }

AlphabetStrings == Strs(Range(C39_CHARS), MaxAlphaLen) \cup { GoldenVector }

\* inputs of safe_filename: short strings, and strings around SAFE_MAX
FileChars == { "A", " ", "$", "#", "_", "." }

Pad == [ i \in 1..(SAFE_MAX - 1) |-> "A" ]

FileStrings ==
  Strs(FileChars, MaxLen) \cup { Pad \o t : t \in Strs(FileChars, MaxLen) }

Calls ==
  [ fn : { "mod43_check_digit" }, s : SampleStrings \cup AlphabetStrings,
    checksum : { FALSE }, plus : { FALSE } ]
  \cup [ fn : { "build_data" }, s : SampleStrings,
         checksum : BOOLEAN, plus : BOOLEAN ]
  \cup [ fn : { "safe_filename" }, s : SampleStrings \cup FileStrings,
         checksum : { FALSE }, plus : { FALSE } ]

NoCall == [ fn |-> "none", s |-> << >>, checksum |-> FALSE, plus |-> FALSE ]

Pending == [ done |-> FALSE, val |-> << >> ]

Returned(v) == [ done |-> TRUE, val |-> v ]

Call_mod43_check_digit ==
  /\ call.fn = "mod43_check_digit"
  /\ ~ret.done
  /\ ret' = Returned(mod43_check_digit(call.s))
  /\ UNCHANGED << call, procVars >>

Call_build_data ==
  /\ call.fn = "build_data"
  /\ ~ret.done
  /\ ret' = Returned(build_data(call.s, call.checksum, call.plus))
  /\ UNCHANGED << call, procVars >>

Call_safe_filename ==
  /\ call.fn = "safe_filename"
  /\ ~ret.done
  /\ ret' = Returned(safe_filename(call.s))
  /\ UNCHANGED << call, procVars >>

\* ------------------------------------------------------------------------
\* Card reports: report_ymca_letter_1up, report_ymca_cr80_1up,
\* report_ymca_letter_6up, report_ymca_letter_6up_mixed
\* ------------------------------------------------------------------------
Put(f, x, v) == [ y \in DOMAIN f \cup { x } |-> IF y = x THEN v ELSE f[y] ]

\* after one encoding's svg is in place: the next `if not svg.exists()`,
\* or on to choose_output_path
AfterKey(p) ==
  IF k[p] < Len(Builds(req[p]))
  THEN /\ k' = [k EXCEPT ![p] = k[p] + 1]
       /\ pc' = [pc EXCEPT ![p] = "lookup"]
  ELSE /\ k' = k
       /\ pc' = [pc EXCEPT ![p] = "open"]

\* the report ends by an exception
Abort(p, exc) ==
  /\ pc' = [pc EXCEPT ![p] = "idle"]
  /\ status' = [status EXCEPT ![p] = exc]

NoSurface == [ opened |-> 0, sealed |-> FALSE, saved |-> FALSE ]

Did(p, what) == [io EXCEPT ![p] = io[p] \cup what]

\* a card report function is entered with the arguments r, after the
\* invocation did io0: build_data, ensure_dir(paths.gen_dir)
Enter(p, r, io0) ==
  /\ IF BuildsOk(r)
     THEN /\ pc' = [pc EXCEPT ![p] = "lookup"]
          /\ status' = [status EXCEPT ![p] = "running"]
          /\ io' = [io EXCEPT ![p] = io0 \cup { "gen_mkdir" }]
     ELSE /\ Abort(p, ValueError)
          /\ io' = [io EXCEPT ![p] = io0]
  /\ k' = [k EXCEPT ![p] = 1]
  /\ slot' = [slot EXCEPT ![p] = 0]
  /\ comp' = [comp EXCEPT ![p] = << >>]
  /\ invoked' = [invoked EXCEPT ![p] = 0]
  /\ surface' = [surface EXCEPT ![p] = NoSurface]
  /\ printed' = [printed EXCEPT ![p] = { }]
  /\ out' = [out EXCEPT ![p] = OutputPath(NoRequest)]

\* a caller calls a card report function with arguments from R and O
CallReport(p, R, O) ==
  /\ pc[p] = "idle"
  /\ runs[p] < budget[p]
  /\ \E r \in R, o \in O :
       /\ req' = [req EXCEPT ![p] = r]
       /\ opt' = [opt EXCEPT ![p] = o]
       /\ Enter(p, r, { })
  /\ runs' = [runs EXCEPT ![p] = runs[p] + 1]
  /\ UNCHANGED << encVars, gen, outDir, budget, served, zintFailed,
                  now, registered, saves >>

\* a caller (run_report, a test) calls one of the card report functions
\* without timestamp, with holes
Start(p) == CallReport(p, Requests, { DefaultOptions })

\* a caller calls a card report function with any timestamp and holes
\* arguments and any of the fonts in paths
StartOpt(p) == CallReport(p, OptRequests, Options)

\* time passes
Tick ==
  /\ now < MaxClock
  /\ now' = now + 1
  /\ UNCHANGED << encVars, gen, outDir, pc, req, k, slot, comp, status,
                  runs, budget, invoked, served, zintFailed, surface,
                  printed, io, opt, out, registered, saves >>

\* the lookup without its `if not svg.exists()`: the renderer always runs
Lookup_AlwaysRender(p) ==
  /\ pc[p] = "lookup"
  /\ pc' = [pc EXCEPT ![p] = "zint"]
  /\ invoked' = [invoked EXCEPT ![p] = invoked[p] + 1]
  /\ io' = Did(p, { "gen_probe", "gen_mkdir", "zint" })
  /\ UNCHANGED << encVars, gen, outDir, req, k, slot, comp, status, runs,
                  budget, served, zintFailed, surface, printed,
                  opt, now, out, registered, saves >>

\* if not svg.exists(): zint_make_svg(...) -- ensure_dir(out_svg.parent)
\* and the subprocess is started
Lookup(p) ==
  /\ pc[p] = "lookup"
  /\ IF Exists(SvgPath(CurData(p)))
     THEN /\ AfterKey(p)
          /\ invoked' = invoked
          /\ io' = Did(p, { "gen_probe" })
     ELSE /\ pc' = [pc EXCEPT ![p] = "zint"]
          /\ invoked' = [invoked EXCEPT ![p] = invoked[p] + 1]
          /\ k' = k
          /\ io' = Did(p, { "gen_probe", "gen_mkdir", "zint" })
  /\ UNCHANGED << encVars, gen, outDir, req, slot, comp, status, runs,
                  budget, served, zintFailed, surface, printed,
                  opt, now, out, registered, saves >>

\* the renderer creates (or truncates) its output file and starts writing
ZintCreate(p) ==
  /\ pc[p] = "zint"
  /\ gen' = Put(gen, SvgPath(CurData(p)), Artifact(CurData(p), FALSE))
  /\ pc' = [pc EXCEPT ![p] = "zint_writing"]
  /\ io' = Did(p, { "gen_write" })
  /\ UNCHANGED << encVars, outDir, req, k, slot, comp, status, runs, budget,
                  invoked, served, zintFailed, surface, printed,
                  opt, now, out, registered, saves >>

\* the renderer exits nonzero before it created the output file;
\* subprocess.run(check=True) raises CalledProcessError
ZintFailEarly(p) ==
  /\ pc[p] = "zint"
  /\ Abort(p, "CalledProcessError")
  /\ zintFailed' = TRUE
  /\ UNCHANGED << encVars, gen, outDir, req, k, slot, comp, runs, budget,
                  invoked, served, surface, printed, io,
                  opt, now, out, registered, saves >>

\* another renderer process is still writing the same file
OtherWriter(p) ==
  \E q \in Invokers \ { p } :
     /\ pc[q] = "zint_writing"
     /\ SvgPath(CurData(q)) = SvgPath(CurData(p))

\* the renderer wrote the whole file and exits 0
ZintExitZero(p) ==
  /\ pc[p] = "zint_writing"
  /\ gen' = Put(gen, SvgPath(CurData(p)),
                Artifact(CurData(p), ~OtherWriter(p)))
  /\ AfterKey(p)
  /\ UNCHANGED << encVars, outDir, req, slot, comp, status, runs, budget,
                  invoked, served, zintFailed, surface, printed, io,
                  opt, now, out, registered, saves >>

\* the renderer exits nonzero after it wrote part of the file; nothing
\* removes the file
ZintExitNonzero(p) ==
  /\ pc[p] = "zint_writing"
  /\ Abort(p, "CalledProcessError")
  /\ zintFailed' = TRUE
  /\ UNCHANGED << encVars, gen, outDir, req, k, slot, comp, runs, budget,
                  invoked, served, surface, printed, io,
                  opt, now, out, registered, saves >>

\* choose_output_path (ensure_dir(out_dir)), canvas.Canvas(...),
\* register_ocrb(...)
Open(p) ==
  /\ pc[p] = "open"
  /\ pc' = [pc EXCEPT ![p] = "draw"]
  /\ slot' = [slot EXCEPT ![p] = 0]
  /\ out' = [out EXCEPT ![p] =
                choose_output_path(req[p], opt[p].timestamp, now)]
  /\ surface' = [surface EXCEPT ![p].opened = @ + 1]
  /\ registered' = [registered EXCEPT ![p] =
                       register_ocrb(registered[p], opt[p].ocrb_ttf)]
  /\ io' = Did(p, { "out_mkdir" }
                     \cup IF registered[p].font = "none"
                          THEN { "font_read" } ELSE { })
  /\ UNCHANGED << encVars, gen, outDir, req, k, comp, status, runs, budget,
                  invoked, served, zintFailed, printed,
                  opt, now, saves >>

\* the svg file the card in the next slot is drawn from
SlotData(p) == Builds(req[p])[SlotBuild(req[p], slot[p])].data

\* the card draw_ymca_card puts on the canvas for the next slot
Card(p) ==
  LET b == Builds(req[p])[SlotBuild(req[p], slot[p])]
      o == SlotOrigin(req[p], slot[p])
  IN  [ slot |-> slot[p], x |-> o[1], y |-> o[2], data |-> b.data,
        bottom |-> b.bottom, art |-> gen[SvgPath(b.data)],
        ops |-> draw_ymca_card(opt[p].holes),
        box |-> draw_barcode_svg(o[1], o[2]),
        font |-> registered[p].font ]

\* the loop of the 6-up reports left after its first card
Draw_OneCardOnly(p) ==
  /\ pc[p] = "draw"
  /\ comp' = [comp EXCEPT ![p] = Append(comp[p], Card(p))]
  /\ slot' = [slot EXCEPT ![p] = slot[p] + 1]
  /\ pc' = [pc EXCEPT ![p] = "seal"]
  /\ io' = Did(p, { "gen_read" })
  /\ UNCHANGED << encVars, gen, outDir, req, k, status, runs, budget,
                  invoked, served, zintFailed, surface, printed,
                  opt, now, out, registered, saves >>

\* draw_ymca_card for the next slot; draw_barcode_svg loads the svg file
Draw(p) ==
  /\ pc[p] = "draw"
  /\ comp' = [comp EXCEPT ![p] = Append(comp[p], Card(p))]
  /\ slot' = [slot EXCEPT ![p] = slot[p] + 1]
  /\ pc' = [pc EXCEPT ![p] =
              IF slot[p] + 1 = NumSlots(req[p]) THEN "seal" ELSE "draw"]
  /\ io' = Did(p, { "gen_read" })
  /\ UNCHANGED << encVars, gen, outDir, req, k, status, runs, budget,
                  invoked, served, zintFailed, surface, printed,
                  opt, now, out, registered, saves >>

\* svg2rlg could not parse a file the renderer did not finish: it returns
\* None and drawing.width raises AttributeError
DrawCrash(p) ==
  /\ pc[p] = "draw"
  /\ ~gen[SvgPath(SlotData(p))].complete
  /\ Abort(p, "AttributeError")
  /\ io' = Did(p, { "gen_read" })
  /\ UNCHANGED << encVars, gen, outDir, req, k, slot, comp, runs, budget,
                  invoked, served, zintFailed, surface, printed,
                  opt, now, out, registered, saves >>

\* c.showPage()
ShowPage(p) ==
  /\ pc[p] = "seal"
  /\ surface' = [surface EXCEPT ![p].sealed = TRUE]
  /\ pc' = [pc EXCEPT ![p] = "save"]
  /\ UNCHANGED << encVars, gen, outDir, req, k, slot, comp, status, runs,
                  budget, invoked, served, zintFailed, printed, io,
                  opt, now, out, registered, saves >>

\* a save that leaves a document that is already at the path alone
Save_KeepExisting(p) ==
  /\ pc[p] = "save"
  /\ outDir' = IF out[p] \in DOMAIN outDir THEN outDir
               ELSE Put(outDir, out[p], comp[p])
  /\ saves' = Append(saves, [ req |-> req[p], opt |-> opt[p],
                               path |-> out[p], doc |-> comp[p] ])
  /\ surface' = [surface EXCEPT ![p].saved = TRUE]
  /\ pc' = [pc EXCEPT ![p] = "report"]
  /\ io' = Did(p, { "out_write" })
  /\ UNCHANGED << encVars, gen, req, k, slot, comp, status, runs, budget,
                  invoked, served, zintFailed, printed,
                  opt, now, out, registered >>

\* c.save(): the document is written to the output path
Save(p) ==
  /\ pc[p] = "save"
  /\ outDir' = Put(outDir, out[p], comp[p])
  /\ saves' = Append(saves, [ req |-> req[p], opt |-> opt[p],
                               path |-> out[p], doc |-> comp[p] ])
  /\ surface' = [surface EXCEPT ![p].saved = TRUE]
  /\ pc' = [pc EXCEPT ![p] = "report"]
  /\ io' = Did(p, { "out_write" })
  /\ UNCHANGED << encVars, gen, req, k, slot, comp, status, runs, budget,
                  invoked, served, zintFailed, printed,
                  opt, now, out, registered >>

\* print(f"Created: {out}"); return out
Report(p) ==
  /\ pc[p] = "report"
  /\ printed' = [printed EXCEPT ![p] = printed[p] \cup { out[p] }]
  /\ pc' = [pc EXCEPT ![p] = "idle"]
  /\ status' = [status EXCEPT ![p] = "ok"]
  /\ served' =
       IF req[p].report \in CardReports
       THEN [ d \in DOMAIN served
                  \cup { Builds(req[p])[i].data : i \in DOMAIN Builds(req[p]) }
              |-> SvgPath(d) ]
       ELSE served
  /\ UNCHANGED << encVars, gen, outDir, req, k, slot, comp, runs, budget,
                  invoked, zintFailed, surface, io,
                  opt, now, out, registered, saves >>

\* the steps of a card report after its entry
CardStep(p) ==
  \/ Lookup(p)
  \/ ZintCreate(p)
  \/ ZintFailEarly(p)
  \/ ZintExitZero(p)
  \/ ZintExitNonzero(p)
  \/ Open(p)
  \/ Draw(p)
  \/ DrawCrash(p)
  \/ ShowPage(p)
  \/ Save(p)
  \/ Report(p)

\* ------------------------------------------------------------------------
\* main(): configuration, dispatch on the report name, barcode-only reports
\* ------------------------------------------------------------------------
UnknownReports == { "bogus" }

MainRequests ==
  [ report : CardReports \cup BarcodeReports \cup UnknownReports,
    raw : RawInputs, checksum : BOOLEAN, plus : BOOLEAN ]

\* what load_json_if_exists, Path.exists and the detect_* functions of
\* merge_paths and merge_header_defaults do to the file system
ConfigIO == { "config_read", "fs_probe" }

\* args = parse_args(); merge_paths(args) and merge_header_defaults(args)
\* found the renderer and the font
Main(p) ==
  /\ pc[p] = "idle"
  /\ runs[p] < budget[p]
  /\ \E r \in MainRequests : req' = [req EXCEPT ![p] = r]
  /\ \E o \in Options : opt' = [opt EXCEPT ![p] = o]
  /\ out' = [out EXCEPT ![p] = OutputPath(NoRequest)]
  /\ runs' = [runs EXCEPT ![p] = runs[p] + 1]
  /\ pc' = [pc EXCEPT ![p] = "dispatch"]
  /\ status' = [status EXCEPT ![p] = "running"]
  /\ io' = [io EXCEPT ![p] = ConfigIO]
  /\ k' = [k EXCEPT ![p] = 1]
  /\ slot' = [slot EXCEPT ![p] = 0]
  /\ comp' = [comp EXCEPT ![p] = << >>]
  /\ invoked' = [invoked EXCEPT ![p] = 0]
  /\ surface' = [surface EXCEPT ![p] = NoSurface]
  /\ printed' = [printed EXCEPT ![p] = { }]
  /\ UNCHANGED << encVars, gen, outDir, budget, served, zintFailed,
                  now, registered, saves >>

\* merge_paths found no renderer or no font: raise FileNotFoundError
MainConfigError(p) ==
  /\ pc[p] = "idle"
  /\ runs[p] < budget[p]
  /\ \E r \in MainRequests : req' = [req EXCEPT ![p] = r]
  /\ \E o \in Options : opt' = [opt EXCEPT ![p] = o]
  /\ out' = [out EXCEPT ![p] = OutputPath(NoRequest)]
  /\ runs' = [runs EXCEPT ![p] = runs[p] + 1]
  /\ Abort(p, "FileNotFoundError")
  /\ io' = [io EXCEPT ![p] = ConfigIO]
  /\ k' = [k EXCEPT ![p] = 1]
  /\ slot' = [slot EXCEPT ![p] = 0]
  /\ comp' = [comp EXCEPT ![p] = << >>]
  /\ invoked' = [invoked EXCEPT ![p] = 0]
  /\ surface' = [surface EXCEPT ![p] = NoSurface]
  /\ printed' = [printed EXCEPT ![p] = { }]
  /\ UNCHANGED << encVars, gen, outDir, budget, served, zintFailed,
                  now, registered, saves >>

\* elif report == "ymca_letter_1up": ... one of the four card reports
DispatchCard(p) ==
  /\ pc[p] = "dispatch"
  /\ req[p].report \in CardReports
  /\ Enter(p, req[p], io[p])
  /\ UNCHANGED << encVars, gen, outDir, req, runs, budget, served,
                  zintFailed, opt, now, registered, saves >>

\* ensure_dir(paths.gen_dir) of a card report cannot create the directory
GenDirError(p) ==
  /\ pc[p] = "dispatch"
  /\ req[p].report \in CardReports
  /\ BuildsOk(req[p])
  /\ Abort(p, "OSError")
  /\ io' = Did(p, { "gen_mkdir" })
  /\ UNCHANGED << encVars, gen, outDir, req, k, slot, comp, runs, budget,
                  invoked, served, zintFailed, surface, printed,
                  opt, now, out, registered, saves >>

\* ensure_dir(out_dir) in choose_output_path cannot create the directory;
\* the card reports get there after the svg files are in place
OutDirError(p) ==
  /\ pc[p] = "open"
  /\ Abort(p, "OSError")
  /\ io' = Did(p, { "out_mkdir" })
  /\ UNCHANGED << encVars, gen, outDir, req, k, slot, comp, runs, budget,
                  invoked, served, zintFailed, surface, printed,
                  opt, now, out, registered, saves >>

\* c.save() cannot write the document into out_dir
SaveError(p) ==
  /\ pc[p] = "save"
  /\ Abort(p, "OSError")
  /\ UNCHANGED << encVars, gen, outDir, req, k, slot, comp, runs, budget,
                  invoked, served, zintFailed, surface, printed, io,
                  opt, now, out, registered, saves >>

\* ensure_dir(out_dir) in choose_output_path of a barcode-only report
\* cannot create the directory
BarcodeOutDirError(p) ==
  /\ pc[p] = "dispatch"
  /\ req[p].report \in BarcodeReports
  /\ BuildsOk(req[p])
  /\ Abort(p, "OSError")
  /\ io' = Did(p, { "out_mkdir" })
  /\ UNCHANGED << encVars, gen, outDir, req, k, slot, comp, runs, budget,
                  invoked, served, zintFailed, surface, printed,
                  opt, now, out, registered, saves >>

\* a barcode-only report that renders into gen_dir, as the card reports do
DispatchBarcode_IntoGenDir(p) ==
  /\ pc[p] = "dispatch"
  /\ req[p].report \in BarcodeReports
  /\ IF BuildsOk(req[p])
     THEN /\ pc' = [pc EXCEPT ![p] = "bzint"]
          /\ status' = status
          /\ invoked' = [invoked EXCEPT ![p] = invoked[p] + 1]
          /\ io' = Did(p, { "gen_mkdir", "gen_write", "zint" })
          /\ gen' = Put(gen, SvgPath(CurData(p)), Artifact(CurData(p), FALSE))
          /\ out' = [out EXCEPT ![p] =
                        choose_output_path(req[p], opt[p].timestamp, now)]
     ELSE /\ Abort(p, ValueError)
          /\ UNCHANGED << invoked, io, gen, out >>
  /\ UNCHANGED << encVars, outDir, req, k, slot, comp, runs, budget,
                  served, zintFailed, surface, printed,
                  opt, now, registered, saves >>

\* if report == "barcode_svg" / "barcode_png": build_data,
\* choose_output_path, zint_make_svg or zint_make_png starts the renderer
DispatchBarcode(p) ==
  /\ pc[p] = "dispatch"
  /\ req[p].report \in BarcodeReports
  /\ IF BuildsOk(req[p])
     THEN /\ pc' = [pc EXCEPT ![p] = "bzint"]
          /\ status' = status
          /\ invoked' = [invoked EXCEPT ![p] = invoked[p] + 1]
          /\ io' = Did(p, { "out_mkdir", "zint" })
          /\ out' = [out EXCEPT ![p] =
                        choose_output_path(req[p], opt[p].timestamp, now)]
     ELSE /\ Abort(p, ValueError)
          /\ UNCHANGED << invoked, io, out >>
  /\ UNCHANGED << encVars, gen, outDir, req, k, slot, comp, runs, budget,
                  served, zintFailed, surface, printed,
                  opt, now, registered, saves >>

\* else: raise SystemExit(f"Unknown report: {report}")
DispatchUnknown(p) ==
  /\ pc[p] = "dispatch"
  /\ req[p].report \notin CardReports \cup BarcodeReports
  /\ Abort(p, "SystemExit")
  /\ UNCHANGED << encVars, gen, outDir, req, k, slot, comp, runs, budget,
                  invoked, served, zintFailed, surface, printed, io,
                  opt, now, out, registered, saves >>

\* the renderer wrote the deliverable to the output path and exits 0
BarcodeZintExitZero(p) ==
  /\ pc[p] = "bzint"
  /\ outDir' = Put(outDir, out[p], Artifact(CurData(p), TRUE))
  /\ pc' = [pc EXCEPT ![p] = "report"]
  /\ io' = Did(p, { "out_write" })
  /\ UNCHANGED << encVars, gen, req, k, slot, comp, status, runs, budget,
                  invoked, served, zintFailed, surface, printed,
                  opt, now, out, registered, saves >>

\* the renderer exits nonzero, with or without a partly written output
BarcodeZintExitNonzero(p) ==
  /\ pc[p] = "bzint"
  /\ Abort(p, "CalledProcessError")
  /\ zintFailed' = TRUE
  /\ \/ /\ outDir' = Put(outDir, out[p], Artifact(CurData(p), FALSE))
        /\ io' = Did(p, { "out_write" })
     \/ UNCHANGED << outDir, io >>
  /\ UNCHANGED << encVars, gen, req, k, slot, comp, runs, budget, invoked,
                  served, surface, printed,
                  opt, now, out, registered, saves >>

\* ------------------------------------------------------------------------
\* Specifications
\* ------------------------------------------------------------------------
InitProc ==
  /\ outDir = << >>
  /\ pc = [p \in Invokers |-> "idle"]
  /\ req = [p \in Invokers |-> NoRequest]
  /\ k = [p \in Invokers |-> 1]
  /\ slot = [p \in Invokers |-> 0]
  /\ comp = [p \in Invokers |-> << >>]
  /\ status = [p \in Invokers |-> "none"]
  /\ runs = [p \in Invokers |-> 0]
  /\ invoked = [p \in Invokers |-> 0]
  /\ surface = [p \in Invokers |-> NoSurface]
  /\ printed = [p \in Invokers |-> { }]
  /\ io = [p \in Invokers |-> { }]
  /\ opt = [p \in Invokers |-> DefaultOptions]
  /\ now = 0
  /\ out = [p \in Invokers |-> OutputPath(NoRequest)]
  /\ registered = [p \in Invokers |-> NoFont]
  /\ saves = << >>

EmptyCache ==
  /\ gen = << >>
  /\ served = << >>
  /\ zintFailed = FALSE

\* one invoker runs reports one after the other against one gen_dir
Init ==
  /\ call = NoCall
  /\ ret = Pending
  /\ InitProc
  /\ EmptyCache
  /\ budget = [p \in Invokers |-> IF p = 1 THEN MaxRuns ELSE 0]

Next ==
  \E p \in Invokers :
     \/ Start(p)
     \/ CardStep(p)

Spec == Init /\ [][Next]_vars

\* two processes each run one report against the same, empty gen_dir
InitRace ==
  /\ call = NoCall
  /\ ret = Pending
  /\ InitProc
  /\ EmptyCache
  /\ budget = [p \in Invokers |-> 1]

SpecRace == InitRace /\ [][Next]_vars

\* gen_dir as earlier invocations left it: holding the svg a card report
\* rendered for "$" ...
WarmGen == (SvgPath(<< "$" >>) :> Artifact(<< "$" >>, TRUE))

WarmCache ==
  /\ gen = WarmGen
  /\ served = (<< "$" >> :> SvgPath(<< "$" >>))
  /\ zintFailed = FALSE

\* ... or the part of it a renderer wrote before it exited nonzero
StaleGen == (SvgPath(<< "$" >>) :> Artifact(<< "$" >>, FALSE))

StaleCache ==
  /\ gen = StaleGen
  /\ served = << >>
  /\ zintFailed = TRUE

\* one process runs main() once
InitMain ==
  /\ call = NoCall
  /\ ret = Pending
  /\ InitProc
  /\ EmptyCache \/ WarmCache \/ StaleCache
  /\ budget = [p \in Invokers |-> IF p = 1 THEN 1 ELSE 0]

NextMain ==
  \E p \in Invokers :
     \/ Main(p)
     \/ MainConfigError(p)
     \/ DispatchCard(p)
     \/ GenDirError(p)
     \/ OutDirError(p)
     \/ SaveError(p)
     \/ DispatchBarcode(p)
     \/ BarcodeOutDirError(p)
     \/ DispatchUnknown(p)
     \/ BarcodeZintExitZero(p)
     \/ BarcodeZintExitNonzero(p)
     \/ CardStep(p)

SpecMain == InitMain /\ [][NextMain]_vars

\* one process calls a card report several times, with any options, while
\* time passes
InitOpt ==
  /\ call = NoCall
  /\ ret = Pending
  /\ InitProc
  /\ EmptyCache
  /\ budget = [p \in Invokers |-> IF p = 1 THEN MaxRuns ELSE 0]

NextOpt ==
  \/ Tick
  \/ \E p \in Invokers :
        \/ StartOpt(p)
        \/ CardStep(p)

SpecOpt == InitOpt /\ [][NextOpt]_vars

\* the pure functions of the DataEncoder applied to bounded inputs
InitEnc ==
  /\ call \in Calls
  /\ ret = Pending
  /\ InitProc
  /\ EmptyCache
  /\ budget = [p \in Invokers |-> 0]

NextEnc ==
  \/ Call_mod43_check_digit
  \/ Call_build_data
  \/ Call_safe_filename

SpecEnc == InitEnc /\ [][NextEnc]_vars

\* ------------------------------------------------------------------------
\* Properties of the barcode artifact cache
\* ------------------------------------------------------------------------
Last(s) == s[Len(s)]

IsAlphabetString(s) == \A i \in 1..Len(s) : s[i] \in Range(C39_CHARS)

Running(p) == pc[p] # "idle"

\* C1: once a report has returned for an encoded data string, a later
\* report that needs the same encoded data resolves it to the same svg
\* path and does not invoke the renderer for it (the lookup is a hit).
C1_CacheIdempotence ==
  \A p \in Invokers :
     Running(p) =>
       \A i \in DOMAIN Builds(req[p]) :
          LET d == Builds(req[p])[i].data
          IN  d \in DOMAIN served =>
                /\ SvgPath(d) = served[d]
                /\ ~(pc[p] \in { "zint", "zint_writing" } /\ k[p] = i)

\* a second report went past its lookup without invoking the renderer
C1_Witness ==
  \E p \in Invokers :
     /\ runs[p] = 2
     /\ pc[p] = "open"
     /\ invoked[p] = 0
     /\ CurData(p) \in DOMAIN served
     /\ Exists(served[CurData(p)])

\* C2: when the renderer exited nonzero while populating a key, the failure
\* reaches the caller and gen_dir holds no file for that key, so that the
\* next request for the same data invokes the renderer again.
C2_FailureLeavesNoEntry ==
  \A p \in Invokers :
     (pc[p] = "idle" /\ status[p] = "CalledProcessError")
        => ~Exists(SvgPath(CurData(p)))

\* C3: the svg file a card is drawn from was rendered from exactly the
\* encoded data of that card, never from another encoded string.
C3_PathHoldsOwnArtifact ==
  \A p \in Invokers :
     \A i \in DOMAIN comp[p] : comp[p][i].art.of = comp[p][i].data

\* C4: two processes that run a card report for the same encoded data
\* against the initially empty gen_dir, with a renderer that never fails,
\* each draw only from completely written svg files.
C4_RaceHarmless ==
  ( /\ ~zintFailed
    /\ \A p \in Invokers : runs[p] = 1
    /\ Builds(req[1]) = Builds(req[2])
    /\ \A i \in DOMAIN Builds(req[1]) :
          IsAlphabetString(Builds(req[1])[i].data) )
  => \A p \in Invokers :
        /\ status[p] # "AttributeError"
        /\ \A i \in DOMAIN comp[p] : comp[p][i].art.complete

\* C5: in the mixed report the plain encoding and the checksum encoding
\* are kept under two different svg paths.
C5_MixedKeysIndependent ==
  \A p \in Invokers :
     (Running(p) /\ IsMixed(req[p]))
        => SvgPath(Builds(req[p])[1].data) # SvgPath(Builds(req[p])[2].data)

\* ------------------------------------------------------------------------
\* Properties of the DataEncoder
\* ------------------------------------------------------------------------
BuildReturned ==
  /\ call.fn = "build_data"
  /\ ret.done
  /\ ret.val.ok

\* C6 as stated: with checksum and plus, the appended symbol is the check
\* digit of the upper-cased trimmed raw without the '+', the symbol that
\* is appended when plus is not set.
C6_ChecksumExcludesPlus ==
  (BuildReturned /\ call.checksum /\ call.plus /\ IsAlphabetString(call.s))
     => Last(ret.val.data) = Last(build_data(call.s, TRUE, FALSE).data)

\* C6 amended: with checksum and plus, the appended symbol is computed over
\* the data with the leading '+' included; it lies 41 positions (the index
\* of '+'), modulo 43, after the symbol appended when plus is not set, and
\* so always differs from it.
C6_ChecksumIncludesPlus ==
  (BuildReturned /\ call.checksum /\ call.plus /\ IsAlphabetString(call.s))
     => LET cd  == Last(ret.val.data)
            cd0 == Last(build_data(call.s, TRUE, FALSE).data)
        IN  /\ C39Index(cd) = (C39Index(cd0) + 41) % 43
            /\ cd # cd0
            /\ ret.val.data = << "+" >> \o Upper(Strip(call.s)) \o << cd >>

C6_Witness ==
  /\ BuildReturned
  /\ call.checksum
  /\ call.plus
  /\ call.s = << "A" >>
  /\ ret.val.data = << "+", "A", "8" >>

\* C7: the display text is the upper-cased trimmed raw, followed by the
\* check symbol when one is requested; no '+' is put in front of it.
C7_DisplayNeverHasPlus ==
  BuildReturned
     => ret.val.bottom =
          Upper(Strip(call.s))
            \o (IF call.checksum THEN << Last(ret.val.data) >> ELSE << >>)

\* C8: the encoded string and the display string are equal, or differ only
\* by a leading '+' of the encoded string; with checksum both end with the
\* same single check symbol appended to the data.
C8_EncodedDisplayAgree ==
  BuildReturned
     => LET data   == ret.val.data
            bottom == ret.val.bottom
            body   == Upper(Strip(call.s))
        IN  /\ \/ data = bottom
               \/ data = << "+" >> \o bottom
            /\ call.checksum =>
                 /\ Len(data) = Len(body) + (IF call.plus THEN 1 ELSE 0) + 1
                 /\ Len(bottom) >= 1
                 /\ Last(data) = Last(bottom)
                 /\ Last(data) \in Range(C39_CHARS)
                 /\ SubSeq(data, Len(data) - Len(body), Len(data) - 1) = body

C8_Witness ==
  /\ BuildReturned
  /\ call.checksum
  /\ call.plus
  /\ call.s = << "A", "b" >>
  /\ Last(ret.val.bottom) = Last(ret.val.data)

\* the number of positions of s that hold the character ch
Occurrences(s, ch) == Cardinality({ i \in 1..Len(s) : s[i] = ch })

\* the sum of the zero-based alphabet indices of s, symbol by symbol
RECURSIVE WeightedCount(_, _)
WeightedCount(s, j) ==
  IF j = 0 THEN 0
  ELSE (j - 1) * Occurrences(s, C39_CHARS[j]) + WeightedCount(s, j - 1)

\* C9: for a string over the 43 symbols, mod43_check_digit returns the one
\* symbol at position (sum of the zero-based indices) mod 43; for
\* "YXXXX0123456" the sum is 187 and the symbol is 'F'.
C9_Mod43OfAlphabetString ==
  (call.fn = "mod43_check_digit" /\ ret.done /\ IsAlphabetString(call.s))
     => /\ ret.val \in Range(C39_CHARS)
        /\ C39Index(ret.val) = WeightedCount(call.s, 43) % 43
        /\ call.s = GoldenVector =>
             (WeightedCount(call.s, 43) = 187 /\ ret.val = "F")

C9_Witness ==
  /\ call.fn = "mod43_check_digit"
  /\ call.s = GoldenVector
  /\ ret.done
  /\ ret.val = "F"

\* Python lstrip("*"): only the leading sentinels go
RECURSIVE StripLeadingStars(_)
StripLeadingStars(s) ==
  IF s # << >> /\ Head(s) = "*" THEN StripLeadingStars(Tail(s)) ELSE s

\* C10 as stated: an input that, with only its leading '*' removed, holds a
\* character outside the alphabet makes mod43_check_digit fail.
C10_RejectsEveryNonAlphabetChar ==
  (call.fn = "mod43_check_digit" /\ ret.done
     /\ ~IsAlphabetString(StripLeadingStars(call.s)))
     => ret.val = ValueError

\* C10 amended: mod43_check_digit fails exactly when the input, upper-cased
\* and with every '*' removed wherever it stands, holds a character outside
\* the alphabet; lower-case letters count as their upper-case symbol and a
\* '*' counts as nothing.
C10_RejectsAfterUpperAndStarRemoval ==
  (call.fn = "mod43_check_digit" /\ ret.done)
     => LET bad == \E i \in 1..Len(call.s) :
                      UpperChar(call.s[i]) \notin Range(C39_CHARS) \cup { "*" }
        IN  /\ bad => ret.val = ValueError
            /\ ~bad => ret.val \in Range(C39_CHARS)

C10_Witness ==
  /\ call.fn = "mod43_check_digit"
  /\ ret.done
  /\ call.s = << "A", "#", "*" >>
  /\ ret.val = ValueError

\* C12: whenever build_data returns, the encoded data is upper-cased and
\* holds only symbols of the 43-character alphabet.
C12_EncodedInAlphabet ==
  BuildReturned
     => /\ IsAlphabetString(ret.val.data)
        /\ ret.val.data = Upper(ret.val.data)

\* C13: without checksum and without plus, encoded and display are both the
\* raw input with its surrounding whitespace cut off and every character
\* upper-cased, nothing added; "abc" gives "ABC".
C13_PlainIsTrimmedUpper ==
  (BuildReturned /\ ~call.checksum /\ ~call.plus)
     => LET data == ret.val.data
            n    == Len(data)
        IN  /\ ret.val.bottom = data
            /\ \E a \in 0..(Len(call.s) - n) :
                  /\ \A i \in 1..a : call.s[i] \in WHITESPACE
                  /\ \A i \in (a + n + 1)..Len(call.s) :
                        call.s[i] \in WHITESPACE
                  /\ \A i \in 1..n : data[i] = UpperChar(call.s[a + i])
            /\ n > 0 => (data[1] \notin WHITESPACE /\ data[n] \notin WHITESPACE)
            /\ call.s = << "a", "b", "c" >> => data = << "A", "B", "C" >>

C13_Witness ==
  /\ BuildReturned
  /\ ~call.checksum
  /\ ~call.plus
  /\ call.s = << " ", "b", " " >>
  /\ ret.val.data = << "B" >>
  /\ ret.val.bottom = << "B" >>

SafeReturned ==
  /\ call.fn = "safe_filename"
  /\ ret.done

\* C14: safe_filename applied to its own result gives that result again.
C14_SafeFilenameIdempotent ==
  SafeReturned => safe_filename(ret.val) = ret.val

\* a string longer than SAFE_MAX with blanks and a run of other characters
C14_Witness ==
  /\ SafeReturned
  /\ call.s = Pad \o << " ", "$", "#" >>
  /\ Len(ret.val) = SAFE_MAX

\* positions of t that survive the substitution: the kept characters and
\* the first character of every run of other characters
KeptPositions(t) ==
  { i \in 1..Len(t) : t[i] \in SafeChars \/ i = 1 \/ t[i - 1] \in SafeChars }

\* C15: safe_filename(s) has at most 120 characters, all of them in
\* [A-Za-z0-9._-], and every maximal run of other characters of the trimmed
\* input stands in the result as exactly one underscore.
C15_SafeFilenameShape ==
  SafeReturned
     => LET t    == Strip(call.s)
            kept == KeptPositions(t)
            n    == Cardinality(kept)
        IN  /\ Len(ret.val) <= 120
            /\ \A j \in 1..Len(ret.val) : ret.val[j] \in SafeChars
            /\ Len(ret.val) = (IF n > 120 THEN 120 ELSE n)
            /\ \A i \in kept :
                  LET j == Cardinality({ x \in kept : x <= i })
                  IN  j <= Len(ret.val) =>
                        ret.val[j] = (IF t[i] \in SafeChars THEN t[i] ELSE "_")

C15_Witness ==
  /\ SafeReturned
  /\ call.s = << " ", "$", "#", "A" >> \/ call.s = << "$", "#", "A" >>
  /\ ret.val = << "_", "A" >>

\* ------------------------------------------------------------------------
\* Properties of the reports and of main()
\* ------------------------------------------------------------------------
\* the string build_data hands to mod43_check_digit, as the loop sees it
ChecksumInput(r) ==
  LET data0 == Upper(Strip(r.raw))
  IN  RemoveChar(IF r.plus THEN << "+" >> \o data0 ELSE data0, "*")

CacheIO == { "gen_mkdir", "gen_probe", "gen_read", "gen_write" }

\* C11: when a run ends with the encoding error of the checksum, that
\* failure is not one of the renderer, configuration or unknown-report
\* failures and its text names a character the alphabet lacks or the
\* position of one (counted from 0 or from 1).
C11_EncodingErrorNamesOffender ==
  \A p \in Invokers :
     status[p] = ValueError
       => /\ ValueError \notin
               { "CalledProcessError", "FileNotFoundError", "SystemExit" }
          /\ LET data == ChecksumInput(req[p])
             IN  \E i \in 1..Len(data) :
                    /\ data[i] \notin Range(C39_CHARS)
                    /\ \/ data[i] \in Range(IndexErrorText(data[i]))
                       \/ DIGITS[i] \in Range(IndexErrorText(data[i]))
                       \/ DIGITS[i + 1] \in Range(IndexErrorText(data[i]))

\* C16: every card the mixed report has drawn in column 0 carries the
\* plain data, the plain bottom text and the completely rendered svg of
\* the plain data, and every card in column 1 the data, bottom text and
\* svg of the data with its check digit, whatever req.checksum is.
C16_MixedColumns ==
  \A p \in Invokers :
     IsMixed(req[p])
       => \A i \in DOMAIN comp[p] :
             LET e == comp[p][i]
                 b == IF e.slot % COLS = 0
                      THEN build_data(req[p].raw, FALSE, req[p].plus)
                      ELSE build_data(req[p].raw, TRUE, req[p].plus)
             IN  /\ e.data = b.data
                 /\ e.bottom = b.bottom
                 /\ e.art = Artifact(b.data, TRUE)

\* C17: in the two 6-up reports the card of slot i is drawn at
\* x = margin_x + (i mod 2) * (CARD_W + gap_x) and
\* y = (page height - margin_top - CARD_H) - (i div 2) * (CARD_H + gap_y);
\* slot 0 is at (12 mm, 213.42 mm), slot 5 is in row 2, column 1 at
\* (109.6 mm, 69.46 mm), two row strides below slot 0.
C17_GridOrigins ==
  \A p \in Invokers :
     NumSlots(req[p]) = ROWS * COLS
       => \A i \in DOMAIN comp[p] :
             LET e == comp[p][i]
                 row == e.slot \div 2
                 col == e.slot % 2
             IN  /\ e.slot \in 0..5
                 /\ e.x = MARGIN_X + col * (CARD_W + GAP_X)
                 /\ e.y = (PAGE_H - MARGIN_TOP - CARD_H) - row * (CARD_H + GAP_Y)
                 /\ e.slot = 0 => (e.x = 1200 /\ e.y = 21342)
                 /\ e.slot = 5 => /\ row = 2
                                   /\ col = 1
                                   /\ e.x = 10960
                                   /\ e.y = 6946
                                   /\ comp[p][1].slot = 0
                                   /\ comp[p][1].y - e.y = 2 * (CARD_H + GAP_Y)

C17_Witness ==
  \E p \in Invokers :
     /\ req[p].report = "ymca_letter_6up_mixed"
     /\ Len(comp[p]) = 6
     /\ comp[p][6].slot = 5
     /\ comp[p][6].x = 10960
     /\ comp[p][6].y = 6946
     /\ comp[p][1].y = 21342

\* C18: a card report opens at most one canvas; cards are drawn only on
\* an open canvas, in slot order; the page is sealed only when all 1 or 6
\* cards are on it, the document is saved only after the page is sealed,
\* the output path is printed only after the save, and a report that
\* returned has done all of this exactly once.
C18_OneSurfaceSealSaveReport ==
  \A p \in Invokers :
     req[p].report \in CardReports
       => /\ surface[p].opened <= 1
          /\ Len(comp[p]) > 0 => surface[p].opened = 1
          /\ Len(comp[p]) <= NumSlots(req[p])
          /\ \A i \in DOMAIN comp[p] : comp[p][i].slot = i - 1
          /\ surface[p].sealed => Len(comp[p]) = NumSlots(req[p])
          /\ surface[p].saved
               => /\ surface[p].sealed
                  /\ OutputPath(req[p]) \in DOMAIN outDir
          /\ printed[p] # { } => surface[p].saved
          /\ status[p] = "ok"
               => /\ surface[p].opened = 1
                  /\ Len(comp[p]) = NumSlots(req[p])
                  /\ surface[p].sealed
                  /\ surface[p].saved
                  /\ printed[p] = { OutputPath(req[p]) }
                  /\ outDir[OutputPath(req[p])] = comp[p]

C18_Witness ==
  \E p \in Invokers :
     /\ req[p].report = "ymca_letter_6up"
     /\ status[p] = "ok"
     /\ Len(comp[p]) = 6
     /\ surface[p] = [ opened |-> 1, sealed |-> TRUE, saved |-> TRUE ]
     /\ printed[p] = { OutputPath(req[p]) }

\* C19: a run of barcode_svg or barcode_png opens no canvas, draws no
\* card, does not create, probe, read or write anything in gen_dir and
\* leaves gen_dir as it found it; when the renderer exited 0 the output
\* path holds the completely rendered barcode of the data.
C19_BarcodeOnlyBypass ==
  \A p \in Invokers :
     req[p].report \in BarcodeReports
       => /\ surface[p] = NoSurface
          /\ comp[p] = << >>
          /\ io[p] \cap CacheIO = { }
          /\ gen \in { << >>, WarmGen, StaleGen }
          /\ (pc[p] = "report" \/ status[p] = "ok")
               => /\ BuildsOk(req[p])
                  /\ out[p] \in DOMAIN outDir
                  /\ outDir[out[p]]
                       = Artifact(Builds(req[p])[1].data, TRUE)
                  /\ { "zint", "out_write" } \subseteq io[p]

C19_Witness ==
  \E p \in Invokers :
     /\ req[p].report = "barcode_png"
     /\ req[p].raw = << "$" >>
     /\ status[p] = "ok"
     /\ WarmCache
     /\ out[p] \in DOMAIN outDir
     /\ io[p] = ConfigIO \cup { "out_mkdir", "zint", "out_write" }

\* C20: when a run has ended with the unknown-report failure, it has read
\* no configuration file, probed and created nothing in the file system,
\* not started the renderer and written no file.
C20_UnknownBeforeAnyIO ==
  \A p \in Invokers :
     status[p] = "SystemExit" => io[p] = { }

\* ------------------------------------------------------------------------
\* Properties of the output files, the failures and the drawing
\* ------------------------------------------------------------------------
ConfigErrors == { "FileNotFoundError", "OSError" }

\* the last document saved to the path
LastSaved(path) ==
  saves[CHOOSE i \in DOMAIN saves :
          /\ saves[i].path = path
          /\ \A j \in DOMAIN saves : saves[j].path = path => j <= i].doc

\* C21: any two documents saved by report invocations that were given
\* timestamp = True were saved to different output paths.
C21_TimestampedPathsDiffer ==
  \A i, j \in DOMAIN saves :
     (i < j /\ saves[i].opt.timestamp /\ saves[j].opt.timestamp)
        => saves[i].path # saves[j].path

\* C22: without timestamp, two runs of a report with the same raw data,
\* checksum and plus arguments save to the same output path, and every
\* file in out_dir is exactly the document of the last save to its path.
C22_LastWriterWins ==
  /\ \A i, j \in DOMAIN saves :
        ( /\ saves[i].req = saves[j].req
          /\ ~saves[i].opt.timestamp
          /\ ~saves[j].opt.timestamp )
           => saves[i].path = saves[j].path
  /\ DOMAIN outDir = { saves[i].path : i \in DOMAIN saves }
  /\ \A path \in DOMAIN outDir : outDir[path] = LastSaved(path)

C22_Witness ==
  /\ Len(saves) = 2
  /\ saves[1].path = saves[2].path
  /\ saves[1].req.raw = saves[2].req.raw
  /\ saves[1].doc # saves[2].doc
  /\ outDir[saves[2].path] = saves[2].doc

\* C23: in a run that ended with a configuration error (renderer or font
\* not found, a directory that cannot be created or written) the renderer
\* was not started and no canvas was opened.
C23_ConfigErrorBeforeRendering ==
  \A p \in Invokers :
     status[p] \in ConfigErrors
       => /\ invoked[p] = 0
          /\ "zint" \notin io[p]
          /\ surface[p].opened = 0

\* C24: a report starts the renderer at most once for each encoding it
\* needs, and a run that ended with the renderer's nonzero exit opened no
\* canvas and left out_dir as it was (empty).
C24_RendererFailureIsHard ==
  \A p \in Invokers :
     /\ req[p] # NoRequest => invoked[p] <= Len(Builds(req[p]))
     /\ status[p] = "CalledProcessError"
          => /\ surface[p].opened = 0
             /\ DOMAIN outDir = { }

\* C25: every card is drawn as border, URL line, title line, the two hole
\* circles if and only if holes are enabled, barcode, bottom text, in this
\* order.
C25_DrawOrder ==
  \A p \in Invokers :
     \A i \in DOMAIN comp[p] :
        LET o == comp[p][i].ops
            n == Len(o)
        IN  /\ n \in { 5, 7 }
            /\ o[1] = "roundRect"
            /\ o[2] = "url"
            /\ o[3] = "title"
            /\ o[n - 1] = "svg"
            /\ o[n] = "bottom"
            /\ opt[p].holes <=> (n = 7)
            /\ n = 7 => (o[4] = "circle" /\ o[5] = "circle")

C25_Witness ==
  \E p \in Invokers :
     /\ ~opt[p].holes
     /\ req[p].report = "ymca_letter_6up"
     /\ Len(comp[p]) = 6
     /\ comp[p][6].ops = << "roundRect", "url", "title", "svg", "bottom" >>

\* C26: a process registers the font name at most once, and every card is
\* drawn with the font file of the paths given to its report invocation.
C26_FontOfTheInvocation ==
  \A p \in Invokers :
     /\ registered[p].calls <= 1
     /\ \A i \in DOMAIN comp[p] : comp[p][i].font = opt[p].ocrb_ttf

\* C27: the six cards of a 6-up page lie inside the letter page and no
\* two of them overlap, and the barcode box of every card lies inside
\* the card.
C27_CardsInsidePage ==
  \A p \in Invokers :
     \A i \in DOMAIN comp[p] :
        LET e == comp[p][i]
        IN  /\ e.x <= e.box.bx
            /\ e.box.bx + e.box.w <= e.x + CARD_W
            /\ e.y <= e.box.by
            /\ e.box.by + e.box.h <= e.y + CARD_H
            /\ NumSlots(req[p]) = ROWS * COLS
                 => /\ 0 <= e.x
                    /\ e.x + CARD_W <= PAGE_W
                    /\ 0 <= e.y
                    /\ e.y + CARD_H <= PAGE_H
                    /\ \A j \in DOMAIN comp[p] :
                          j # i =>
                            LET f == comp[p][j]
                            IN  \/ e.x + CARD_W <= f.x
                                \/ f.x + CARD_W <= e.x
                                \/ e.y + CARD_H <= f.y
                                \/ f.y + CARD_H <= e.y

C27_Witness ==
  \E p \in Invokers :
     /\ req[p].report = "ymca_letter_6up"
     /\ Len(comp[p]) = 6
     /\ comp[p][6].x + CARD_W = 19520
     /\ comp[p][6].y = 6946
     /\ comp[p][6].box = [ bx |-> 12280, by |-> 7496, w |-> 5920, h |-> 1300 ]

====
